---- MODULE Spec2Model ----
(***************************************************************************)
(* ProjectEMU64 (src/hdremu64.py): the Tkinter launcher, its placeholder   *)
(* CPU / memory / PPU / controller objects, the GUI-thread handlers        *)
(* (start, stop, open_rom, key_down, key_up) and the background loop       *)
(* threads spawned by start().                                             *)
(*                                                                         *)
(* Addresses are 32-bit quantities from 0x80000000 upwards, which do not   *)
(* fit the model checker's integers; an address is the record              *)
(* [hi |-> upper 16 bits, lo |-> lower 16 bits].                           *)
(***************************************************************************)
EXTENDS Integers, Sequences, FiniteSets, TLC

(* ------------------------------ bounds -------------------------------- *)

\* ProjectEMU64PPU.width (320 in the source), scaled down.
Width == 3

\* ProjectEMU64PPU.height (240 in the source), scaled down.
Height == 2

\* side of the square painted by draw_random_square (20 in the source).
SquareSide == 1

\* len(ProjectEMU64Memory.rdram) (8 MB in the source), scaled down.
RdramSize == 5

\* number of loop threads that may be alive at the same time.
MaxThreads == 2

\* cap of the cycle counter (unbounded in the source).
MaxCycles == 3

\* cap of the frame counter of the two-run determinism harness.
MaxFrames == 3

\* number of keys held down at the same time.
MaxHeld == 7

(* --------------------------- program constants ------------------------ *)

CONTROLLER_A == 1

CONTROLLER_B == 2

CONTROLLER_START == 4

CONTROLLER_DPAD_UP == 16

CONTROLLER_DPAD_DOWN == 32

CONTROLLER_DPAD_LEFT == 64

CONTROLLER_DPAD_RIGHT == 128

\* 0x80000000, the value reset() gives pc.
ResetVector == [hi |-> 32768, lo |-> 0]

Black == "#000000"
Blue == "#0011FF"
White == "#FFFFFF"

\* byte values a ROM image is drawn from (a byte is 0..255 in the source).
Bytes == {0, 255}

\* key symbols Tk may deliver; "a" stands for every key update() ignores.
Keysyms == {"space", "Return", "Up", "Down", "Left", "Right", "a"}

Threads == 1..MaxThreads

(* ------------------------------ helpers ------------------------------- *)

\* addr + n for a small n >= 0, on the two 16-bit halves.
AddrPlus(a, n) ==
    [hi |-> a.hi + ((a.lo + n) \div 65536), lo |-> (a.lo + n) % 65536]

\* addr < n for a small integer n (n < 65536).
AddrLess(a, n) == a.hi = 0 /\ a.lo < n

\* [0]*32
ZeroRegs == [r \in 0..31 |-> 0]

\* [color]*(width*height)
Filled(color) == [c \in 1..(Width * Height) |-> color]

\* bytearray(8 * 1024 * 1024)
ZeroRdram == [b \in 1..RdramSize |-> 0]

Min(a, b) == IF a < b THEN a ELSE b

VARIABLES
    running,      \* ProjectEMU64Launcher.running
    status,       \* text of the status label
    cpu_running,  \* ProjectEMU64CPU.running
    regs,         \* ProjectEMU64CPU.regs
    cpu_pc,       \* ProjectEMU64CPU.pc
    next_pc,      \* ProjectEMU64CPU.next_pc
    cycles,       \* ProjectEMU64CPU.cycles
    bus,          \* the memory reads of the last execute(): address and word
    rdram,        \* ProjectEMU64Memory.rdram
    rom,          \* ProjectEMU64Memory.rom ("None" before the first load)
    rom_size,     \* ProjectEMU64Memory.rom_size
    framebuffer,  \* ProjectEMU64PPU.framebuffer
    keys,         \* ProjectEMU64Launcher.keys
    buttons,      \* SimpleController.buttons
    gui,          \* position of the GUI thread: the handler it is inside
    data,         \* open_rom's local: the bytes read from the chosen file
    dialog,       \* title of the modal message box on screen ("none": no box)
    pc,           \* position of each loop thread
    sq,           \* draw_random_square's locals x, y and cells already written
    row,          \* update_display's local y
    runFb,        \* determinism harness: framebuffer of each of two runs
    runFrames     \* determinism harness: loop iterations done by each run

cpuVars == <<cpu_running, regs, cpu_pc, next_pc, cycles, bus>>
memVars == <<rdram, rom, rom_size, data, dialog>>
keyVars == <<keys, buttons>>
thrVars == <<pc, sq, row>>
runVars == <<runFb, runFrames>>
vars == <<running, status, cpu_running, regs, cpu_pc, next_pc, cycles, bus,
          rdram, rom, rom_size, framebuffer, keys, buttons, gui, data,
          dialog, pc, sq, row, runFb, runFrames>>

(* ------------------------------- Init --------------------------------- *)

\* the state after ProjectEMU64Launcher.__init__
Init ==
    /\ running = FALSE
    /\ status = "Ready."
    /\ cpu_running = FALSE
    /\ regs = ZeroRegs
    /\ cpu_pc = ResetVector
    /\ next_pc = AddrPlus(ResetVector, 4)
    /\ cycles = 0
    /\ bus = <<>>
    /\ rdram = ZeroRdram
    /\ rom = "None"
    /\ rom_size = 0
    /\ framebuffer = Filled(Black)
    /\ keys = {}
    /\ buttons = 0
    /\ gui = "idle"
    /\ data = <<>>
    /\ dialog = "none"
    /\ pc = [t \in Threads |-> "dead"]
    /\ sq = [t \in Threads |-> [x |-> 0, y |-> 0, n |-> 0]]
    /\ row = [t \in Threads |-> 0]
    /\ runFb = [r \in 1..2 |-> Filled(Blue)]
    /\ runFrames = [r \in 1..2 |-> 0]

(* ------------------------------- CPU ---------------------------------- *)

\* reset() that fills the register file with ones (`[1]*32`)
CpuResetRegsOnes ==
    [regs |-> [r \in 0..31 |-> 1], pc |-> ResetVector,
     next_pc |-> AddrPlus(ResetVector, 4), cycles |-> 0]

\* reset() that forgets the `+ 4` of next_pc
CpuResetNextPcStale ==
    [regs |-> ZeroRegs, pc |-> ResetVector, next_pc |-> ResetVector,
     cycles |-> 0]

\* ProjectEMU64CPU.reset: the fields after the call, as a record
CpuReset ==
    [regs |-> ZeroRegs, pc |-> ResetVector,
     next_pc |-> AddrPlus(ResetVector, 4), cycles |-> 0]

\* the open-bus value 0, as a 32-bit word
ZeroWord == [hi |-> 0, lo |-> 0]

\* read_word that unpacks with "<I": the four bytes in little-endian order
read_wordLittleEndian(mem, addr) ==
    IF AddrLess(addr, Len(mem) - 3)
    THEN [hi |-> mem[addr.lo + 4] * 256 + mem[addr.lo + 3],
          lo |-> mem[addr.lo + 2] * 256 + mem[addr.lo + 1]]
    ELSE ZeroWord

\* ProjectEMU64Memory.read_word: struct.unpack(">I", rdram[addr:addr+4]), the
\* 32-bit result as [hi |-> upper 16 bits, lo |-> lower 16 bits]
read_word(mem, addr) ==
    IF AddrLess(addr, Len(mem) - 3)
    THEN [hi |-> mem[addr.lo + 1] * 256 + mem[addr.lo + 2],
          lo |-> mem[addr.lo + 3] * 256 + mem[addr.lo + 4]]
    ELSE ZeroWord

\* execute() without its `if not self.running: return`
CpuExecuteIgnoresRunning ==
    /\ bus' = <<[addr |-> cpu_pc, word |-> read_word(rdram, cpu_pc)]>>
    /\ cpu_pc' = AddrPlus(cpu_pc, 4)
    /\ cycles' = cycles + 1

\* ProjectEMU64CPU.execute: an early return when the CPU is not running,
\* else one fetch at pc, pc += 4, cycles += 1 (next_pc is not assigned).
CpuExecute ==
    IF ~cpu_running
    THEN UNCHANGED <<cpu_pc, cycles>> /\ bus' = <<>>
    ELSE /\ bus' = <<[addr |-> cpu_pc, word |-> read_word(rdram, cpu_pc)]>>
         /\ cpu_pc' = AddrPlus(cpu_pc, 4)
         /\ cycles' = cycles + 1

(* ------------------------------- PPU ---------------------------------- *)

\* the index with x and y exchanged: (x+j)*self.width + (y+i)
SquareIdxTransposed(x, y, n) ==
    (x + (n \div SquareSide)) * Width + (y + (n % SquareSide)) + 1

\* idx = (y+j)*self.width + (x+i) for the n-th cell of the square,
\* n = j*SquareSide + i, as a 1-based index of the model's sequence
SquareIdx(x, y, n) ==
    (y + (n \div SquareSide)) * Width + (x + (n % SquareSide)) + 1

\* values random.randint(0, self.width-21) can return
SquareXs == 0..(Width - (SquareSide + 1))

\* values random.randint(0, self.height-21) can return
SquareYs == 0..(Height - (SquareSide + 1))

\* ProjectEMU64PPU.reset: the framebuffer after the call
PpuReset == Filled(Blue)

\* draw_random_square run to its end on fb with the square at (x, y)
DrawSquare(fb, x, y) ==
    [c \in DOMAIN fb |->
       IF \E n \in 0..(SquareSide * SquareSide - 1) : SquareIdx(x, y, n) = c
       THEN White ELSE fb[c]]

(* ----------------------------- controller ----------------------------- *)

RECURSIVE BitOr(_, _)
\* a | b on non-negative integers
BitOr(a, b) ==
    IF a = 0 THEN b
    ELSE IF b = 0 THEN a
    ELSE (IF a % 2 = 1 \/ b % 2 = 1 THEN 1 ELSE 0)
         + 2 * BitOr(a \div 2, b \div 2)

\* the keys SimpleController.update tests, in the order of its statements
UpdateOrder == <<"space", "Return", "Up", "Down", "Left", "Right">>

\* the constant update() ORs in for a key
KeyBit(k) ==
    CASE k = "space" -> CONTROLLER_A
      [] k = "Return" -> CONTROLLER_B
      [] k = "Up" -> CONTROLLER_DPAD_UP
      [] k = "Down" -> CONTROLLER_DPAD_DOWN
      [] k = "Left" -> CONTROLLER_DPAD_LEFT
      [] k = "Right" -> CONTROLLER_DPAD_RIGHT

RECURSIVE MaskFrom(_, _, _)
\* buttons after the statements of update() from the i-th test on, from mask b
MaskFrom(held, i, b) ==
    IF i > Len(UpdateOrder) THEN b
    ELSE MaskFrom(held, i + 1,
                  IF UpdateOrder[i] \in held
                  THEN BitOr(b, KeyBit(UpdateOrder[i])) ELSE b)

\* SimpleController.update run to its end: the mask of a set of held keys
ButtonMask(held) == MaskFrom(held, 1, 0)

(* ------------------------- launcher: GUI thread ----------------------- *)

\* a loop-thread slot not in use: start() creates its thread there
FreeSlot == CHOOSE t \in Threads : pc[t] = "dead" /\ \A u \in Threads : pc[u] = "dead" => t <= u

\* start() without its `if self.running: return`
StartNoGuard ==
    /\ gui = "idle"
    /\ \E t \in Threads : pc[t] = "dead"
    /\ regs' = CpuReset.regs
    /\ cpu_pc' = CpuReset.pc
    /\ next_pc' = CpuReset.next_pc
    /\ cycles' = CpuReset.cycles
    /\ framebuffer' = PpuReset
    /\ running' = TRUE
    /\ status' = "Running..."
    /\ pc' = [pc EXCEPT ![FreeSlot] = "check"]
    /\ UNCHANGED <<cpu_running, bus, memVars, keyVars, gui, sq, row, runVars>>

\* ProjectEMU64Launcher.start
Start ==
    /\ gui = "idle"
    /\ IF running
       THEN UNCHANGED vars
       ELSE /\ \E t \in Threads : pc[t] = "dead"
            /\ regs' = CpuReset.regs
            /\ cpu_pc' = CpuReset.pc
            /\ next_pc' = CpuReset.next_pc
            /\ cycles' = CpuReset.cycles
            /\ framebuffer' = PpuReset
            /\ running' = TRUE
            /\ status' = "Running..."
            /\ pc' = [pc EXCEPT ![FreeSlot] = "check"]
            /\ UNCHANGED <<cpu_running, bus, memVars, keyVars, gui, sq, row, runVars>>

\* ProjectEMU64Launcher.stop
Stop ==
    /\ gui = "idle"
    /\ running' = FALSE
    /\ status' = "Stopped"
    /\ UNCHANGED <<cpuVars, memVars, framebuffer, keyVars, gui, thrVars, runVars>>

(* ------------------------- launcher: loop thread ---------------------- *)

\* a loop that never reads the flag (`while True:`)
LoopCheckIgnoresFlag(t) ==
    /\ pc[t] = "check"
    /\ pc' = [pc EXCEPT ![t] = "exec"]
    /\ UNCHANGED <<running, status, cpuVars, memVars, framebuffer, keyVars,
                   gui, sq, row, runVars>>

\* `while self.running:` -- the only place the loop reads the flag
LoopCheck(t) ==
    /\ pc[t] = "check"
    /\ pc' = [pc EXCEPT ![t] = IF running THEN "exec" ELSE "dead"]
    /\ UNCHANGED <<running, status, cpuVars, memVars, framebuffer, keyVars,
                   gui, sq, row, runVars>>

\* self.cpu.execute(self.memory)
LoopExecute(t) ==
    /\ pc[t] = "exec"
    /\ cpu_running => cycles < MaxCycles
    /\ CpuExecute
    /\ pc' = [pc EXCEPT ![t] = "rand"]
    /\ UNCHANGED <<running, status, cpu_running, regs, next_pc, memVars,
                   framebuffer, keyVars, gui, sq, row, runVars>>

\* `if random.randint(0, 10) == 0:` and, when it is, the two randint calls
\* that open draw_random_square
LoopRand(t) ==
    /\ pc[t] = "rand"
    /\ \E r \in 0..10 :
         IF r = 0
         THEN \E x \in SquareXs, y \in SquareYs :
                /\ sq' = [sq EXCEPT ![t] = [x |-> x, y |-> y, n |-> 0]]
                /\ pc' = [pc EXCEPT ![t] = "draw"]
                /\ UNCHANGED row
         ELSE /\ pc' = [pc EXCEPT ![t] = "display"]
              /\ row' = [row EXCEPT ![t] = 0]
              /\ UNCHANGED sq
    /\ UNCHANGED <<running, status, cpuVars, memVars, framebuffer, keyVars,
                   gui, runVars>>

\* one pass of draw_random_square's inner loop: self.framebuffer[idx] = color
LoopDraw(t) ==
    /\ pc[t] = "draw"
    /\ framebuffer' =
         [framebuffer EXCEPT ![SquareIdx(sq[t].x, sq[t].y, sq[t].n)] = White]
    /\ IF sq[t].n + 1 = SquareSide * SquareSide
       THEN /\ pc' = [pc EXCEPT ![t] = "display"]
            /\ sq' = [sq EXCEPT ![t] = [x |-> 0, y |-> 0, n |-> 0]]
            /\ row' = [row EXCEPT ![t] = 0]
       ELSE /\ sq' = [sq EXCEPT ![t].n = @ + 1]
            /\ UNCHANGED <<pc, row>>
    /\ UNCHANGED <<running, status, cpuVars, memVars, keyVars, gui, runVars>>

\* one pass of update_display's outer loop: a row of the framebuffer is read
\* and put into the Tk image (the image belongs to the toolkit)
LoopDisplay(t) ==
    /\ pc[t] = "display"
    /\ IF row[t] + 1 = Height
       THEN /\ pc' = [pc EXCEPT ![t] = "fps"]
            /\ row' = [row EXCEPT ![t] = 0]
       ELSE /\ row' = [row EXCEPT ![t] = @ + 1]
            /\ UNCHANGED pc
    /\ UNCHANGED <<running, status, cpuVars, memVars, framebuffer, keyVars,
                   gui, sq, runVars>>

\* self.update_fps(); time.sleep(1/60) -- FPS statistics are host-clock data
LoopSleep(t) ==
    /\ pc[t] = "fps"
    /\ pc' = [pc EXCEPT ![t] = "check"]
    /\ UNCHANGED <<running, status, cpuVars, memVars, framebuffer, keyVars,
                   gui, sq, row, runVars>>

\* ProjectEMU64Launcher.loop, one step of thread t
LoopStep(t) ==
    \/ LoopCheck(t)
    \/ LoopExecute(t)
    \/ LoopRand(t)
    \/ LoopDraw(t)
    \/ LoopDisplay(t)
    \/ LoopSleep(t)

(* ------------------------ launcher: key handlers ---------------------- *)

\* ProjectEMU64Launcher.key_down up to the call of controller.update
KeyDown ==
    /\ gui = "idle"
    /\ \E k \in Keysyms :
         /\ Cardinality(keys \cup {k}) <= MaxHeld
         /\ keys' = keys \cup {k}
    /\ gui' = "clear"
    /\ UNCHANGED <<running, status, cpuVars, memVars, framebuffer, buttons,
                   thrVars, runVars>>

\* ProjectEMU64Launcher.key_up up to the call of controller.update
KeyUp ==
    /\ gui = "idle"
    /\ \E k \in Keysyms : keys' = keys \ {k}
    /\ gui' = "clear"
    /\ UNCHANGED <<running, status, cpuVars, memVars, framebuffer, buttons,
                   thrVars, runVars>>

\* position of a key's test in update()
OrderIndex(k) == CHOOSE i \in 1..Len(UpdateOrder) : UpdateOrder[i] = k

\* one statement of SimpleController.update: `self.buttons = 0`, then one
\* `if <key> in keys: self.buttons |= <constant>` per key of UpdateOrder
UpdateStep ==
    /\ gui \notin {"idle", "load", "box"}
    /\ IF gui = "clear"
       THEN /\ buttons' = 0
            /\ gui' = UpdateOrder[1]
       ELSE /\ buttons' = IF gui \in keys THEN BitOr(buttons, KeyBit(gui))
                          ELSE buttons
            /\ gui' = IF OrderIndex(gui) = Len(UpdateOrder) THEN "idle"
                      ELSE UpdateOrder[OrderIndex(gui) + 1]
    /\ UNCHANGED <<running, status, cpuVars, memVars, framebuffer, keys,
                   thrVars, runVars>>

(* --------------------------- launcher: open_rom ----------------------- *)

\* byte strings a chosen file may hold: up to one byte more than rdram
RomImages == UNION {[1..n -> Bytes] : n \in 0..(RdramSize + 1)}

\* load_rom that starts from a fresh zeroed rdram before it copies
load_romClearsTail(mem, d) ==
    [rom |-> d,
     rom_size |-> Len(d),
     rdram |-> [b \in 1..Len(mem) |->
                  IF b <= Min(Len(d), Len(mem)) THEN d[b] ELSE 0]]

\* ProjectEMU64Memory.load_rom: the fields after the call, as a record
load_rom(mem, d) ==
    [rom |-> d,
     rom_size |-> Len(d),
     rdram |-> [b \in 1..Len(mem) |->
                  IF b <= Min(Len(d), Len(mem)) THEN d[b] ELSE mem[b]]]

\* open_rom up to `data = f.read()`: the file dialog is cancelled, or the
\* read raises and the handler shows the "Load Error" box, or the bytes are
\* read
OpenRead ==
    /\ gui = "idle"
    /\ \/ UNCHANGED vars
       \/ /\ dialog' = "Load Error"
          /\ gui' = "box"
          /\ UNCHANGED <<running, status, cpuVars, rdram, rom, rom_size, data,
                         framebuffer, keyVars, thrVars, runVars>>
       \/ /\ \E d \in RomImages : data' = d
          /\ gui' = "load"
          /\ UNCHANGED <<running, status, cpuVars, rdram, rom, rom_size,
                         dialog, framebuffer, keyVars, thrVars, runVars>>

\* the rest of open_rom: self.memory.load_rom(data), which returns normally
\* for every byte string, then the status line
OpenLoad ==
    /\ gui = "load"
    /\ rom' = load_rom(rdram, data).rom
    /\ rom_size' = load_rom(rdram, data).rom_size
    /\ rdram' = load_rom(rdram, data).rdram
    /\ status' = "Loaded"
    /\ gui' = "idle"
    /\ UNCHANGED <<running, cpuVars, data, dialog, framebuffer, keyVars,
                   thrVars, runVars>>

\* messagebox.showerror returns: the user closes the box
Dismiss ==
    /\ gui = "box"
    /\ dialog' = "none"
    /\ gui' = "idle"
    /\ UNCHANGED <<running, status, cpuVars, rdram, rom, rom_size, data,
                   framebuffer, keyVars, thrVars, runVars>>

(* ------------------------- the whole launcher ------------------------- *)

\* start, stop and the loop threads
Next ==
    \/ Start
    \/ Stop
    \/ \E t \in Threads : LoopStep(t)

Spec == Init /\ [][Next]_vars

\* the operating system schedules every live thread, and sleep() returns
FairSpec == Spec /\ \A t \in Threads : WF_vars(LoopStep(t))

\* key events interleaved with start, stop and the loop threads
NextInput ==
    \/ KeyDown
    \/ KeyUp
    \/ UpdateStep
    \/ Start
    \/ Stop
    \/ \E t \in Threads : LoopStep(t)

SpecInput == Init /\ [][NextInput]_vars

\* key events alone
NextKeys ==
    \/ KeyDown
    \/ KeyUp
    \/ UpdateStep

SpecKeys == Init /\ [][NextKeys]_vars

\* File > Open ROM..., any number of times
NextMem ==
    \/ OpenRead
    \/ OpenLoad
    \/ Dismiss

SpecMem == Init /\ [][NextMem]_vars

(* ------------------------- the CPU object alone ----------------------- *)

\* a ProjectEMU64CPU whose public `running` attribute has either value,
\* over a memory holding any bytes
InitCpu ==
    /\ running = FALSE
    /\ status = "Ready."
    /\ cpu_running \in BOOLEAN
    /\ regs = ZeroRegs
    /\ cpu_pc = ResetVector
    /\ next_pc = AddrPlus(ResetVector, 4)
    /\ cycles = 0
    /\ bus = <<>>
    /\ rdram \in [1..RdramSize -> Bytes]
    /\ rom = "None"
    /\ rom_size = 0
    /\ framebuffer = Filled(Black)
    /\ keys = {}
    /\ buttons = 0
    /\ gui = "idle"
    /\ data = <<>>
    /\ dialog = "none"
    /\ pc = [t \in Threads |-> "dead"]
    /\ sq = [t \in Threads |-> [x |-> 0, y |-> 0, n |-> 0]]
    /\ row = [t \in Threads |-> 0]
    /\ runFb = [r \in 1..2 |-> Filled(Blue)]
    /\ runFrames = [r \in 1..2 |-> 0]

\* cpu.execute(memory) called on the object
UnitExecute ==
    /\ cpu_running => cycles < MaxCycles
    /\ CpuExecute
    /\ UNCHANGED <<running, status, cpu_running, regs, next_pc, memVars,
                   framebuffer, keyVars, gui, thrVars, runVars>>

\* cpu.reset() called on the object
UnitReset ==
    /\ regs' = CpuReset.regs
    /\ cpu_pc' = CpuReset.pc
    /\ next_pc' = CpuReset.next_pc
    /\ cycles' = CpuReset.cycles
    /\ UNCHANGED <<running, status, cpu_running, bus, memVars, framebuffer,
                   keyVars, gui, thrVars, runVars>>

NextCpu ==
    \/ UnitExecute
    \/ UnitReset

SpecCPU == InitCpu /\ [][NextCpu]_vars

(* ------------------------- the memory bus alone ----------------------- *)

\* addresses presented to read_word: every offset around the end of rdram,
\* the reset vector and the word after it, and two far addresses
BusAddrs ==
    {[hi |-> 0, lo |-> a] : a \in 0..(RdramSize + 1)}
      \cup {ResetVector, AddrPlus(ResetVector, 4),
            [hi |-> 0, lo |-> 65535], [hi |-> 128, lo |-> 0]}

\* ProjectEMU64CPU.fetch(memory, addr): memory.read_word(addr)
BusRead ==
    /\ \E a \in BusAddrs : bus' = <<[addr |-> a, word |-> read_word(rdram, a)]>>
    /\ UNCHANGED <<running, status, cpu_running, regs, cpu_pc, next_pc, cycles,
                   memVars, framebuffer, keyVars, gui, thrVars, runVars>>

NextBus ==
    \/ BusRead
    \/ UnitExecute
    \/ UnitReset

SpecBus == InitCpu /\ [][NextBus]_vars

(* ------------------- two runs of the loop, side by side --------------- *)

\* One iteration of ProjectEMU64Launcher.loop in run r, taken as a whole.
\* Both runs begin right after start(), share the memory (the same ROM) and
\* the controller (the same input), and differ in nothing but the values
\* random.randint returns.
RunFrame(r) ==
    /\ runFrames[r] < MaxFrames
    /\ \E rnd \in 0..10 :
         IF rnd = 0
         THEN \E x \in SquareXs, y \in SquareYs :
                runFb' = [runFb EXCEPT ![r] = DrawSquare(@, x, y)]
         ELSE UNCHANGED runFb
    /\ runFrames' = [runFrames EXCEPT ![r] = @ + 1]
    /\ UNCHANGED <<running, status, cpuVars, memVars, framebuffer, keyVars,
                   gui, thrVars>>

NextDet == \E r \in 1..2 : RunFrame(r)

SpecDet == Init /\ [][NextDet]_vars

(* ------------------------------ properties --------------------------- *)

\* thread t exists and has not left loop()
Alive(t) == pc[t] # "dead"

\* thread t is inside draw_random_square or inside update_display's loops
InsidePpu(t) == pc[t] = "draw" \/ (pc[t] = "display" /\ row[t] > 0)

\* C1: once start() has run on a stopped launcher the CPU is in its running
\* state, so that execute() fetches and advances pc and cycles.
C1_StartRunsCpu == running => cpu_running

\* C2: at most one loop thread is alive at any time, whatever the order of
\* start() and stop() calls.
C2_OneLoopThread == Cardinality({t \in Threads : Alive(t)}) <= 1

\* C3: the loop reads the run flag only at the top of an iteration: a thread
\* leaves loop() only from there and only having seen the flag cleared, a
\* thread that reaches the top with the flag cleared leaves instead of
\* starting another iteration, every thread has left some time after a stop()
\* that no start() follows, and from then on pc, cycles and the framebuffer
\* stay as they are.
C3_CooperativeStop ==
    /\ [][/\ \A t \in Threads :
               (pc[t] # "dead" /\ pc'[t] = "dead")
                  => (pc[t] = "check" /\ ~running)
          /\ \A t \in Threads :
               (~running /\ pc[t] = "check" /\ pc'[t] # "check")
                  => pc'[t] = "dead"
          /\ (~running /\ ~running' /\ \A t \in Threads : ~Alive(t))
                  => UNCHANGED <<cpu_pc, cycles, framebuffer>>]_vars
    /\ (~running) ~> (running \/ \A t \in Threads : ~Alive(t))

\* C3 witness: a run that painted a square was stopped and its thread left.
C3_Witness ==
    /\ ~running
    /\ status = "Stopped"
    /\ \A t \in Threads : ~Alive(t)
    /\ \E c \in DOMAIN framebuffer : framebuffer[c] = White

\* C4: every step that takes the launcher from not running to running leaves
\* the CPU in its power-on state (32 registers at zero, pc at the reset vector
\* 0x80000000, next_pc = pc + 4, cycles = 0) with the new thread still at the
\* top of its first iteration.
C4_StartResets ==
    [][(~running /\ running')
         => /\ DOMAIN regs' = 0..31
            /\ \A r \in 0..31 : regs'[r] = 0
            /\ cpu_pc' = [hi |-> 32768, lo |-> 0]
            /\ next_pc' = AddrPlus(cpu_pc', 4)
            /\ cycles' = 0
            /\ \A t \in Threads : pc'[t] # pc[t] => pc'[t] = "check"]_vars

\* C4 witness: a restart, the new thread not yet past its first check and the
\* thread of the run before still inside an iteration.
C4_Witness ==
    /\ running
    /\ status = "Running..."
    /\ \E t \in Threads : pc[t] = "check"
    /\ \E u \in Threads : pc[u] \notin {"dead", "check"}

\* C5: an execute() on a running CPU fetches at the old pc and leaves
\* pc = old next_pc and next_pc = old next_pc + 4.
C5_StepAdvancesBothPcs ==
    [][(cpu_running /\ cycles' = cycles + 1)
         => /\ Len(bus') = 1
            /\ bus'[1].addr = cpu_pc
            /\ cpu_pc' = next_pc
            /\ next_pc' = AddrPlus(next_pc, 4)]_vars

\* C6: two runs on the same ROM and input that have done the same number of
\* loop iterations hold the same framebuffer.
C6_FrameDeterminism ==
    runFrames[1] = runFrames[2] => runFb[1] = runFb[2]

\* C7: a load of a zero-length image ends in the error being shown and
\* leaves rom, rom_size and rdram as they were.
C7_EmptyLoadRejected ==
    [][(gui = "load" /\ data = <<>> /\ gui' # "load")
         => /\ dialog' = "Load Error"
            /\ UNCHANGED <<rom, rom_size, rdram>>]_vars

\* C8: a load of an image longer than rdram ends in the error being shown
\* and leaves rom, rom_size and rdram as they were.
C8_TooLargeRejected ==
    [][(gui = "load" /\ Len(data) > Len(rdram) /\ gui' # "load")
         => /\ dialog' = "Load Error"
            /\ UNCHANGED <<rom, rom_size, rdram>>]_vars

\* C9: the GUI thread replaces the framebuffer (start() calling ppu.reset())
\* only while no loop thread is inside draw_random_square or update_display.
C9_NoFramebufferRace ==
    [][(~running /\ running') => \A t \in Threads : ~InsidePpu(t)]_vars

\* C10: controller.buttons changes only while no loop iteration is in
\* progress, and a change takes it straight to the mask of the held keys.
C10_AtomicInput ==
    [][buttons' # buttons
         => /\ \A t \in Threads : pc[t] \in {"dead", "check"}
            /\ buttons' = ButtonMask(keys')]_vars

\* C11: every word read is the big-endian value of the four bytes at the
\* address when addr < len(rdram) - 3 and the fallback value 0 at every other
\* address, the pc values reached from the reset vector among them.
C11_ReadWordBigEndianOpenBus ==
    \A i \in 1..Len(bus) :
      LET a == bus[i].addr
          w == bus[i].word
      IN  IF a.hi = 0 /\ a.lo + 3 < Len(rdram)
          THEN /\ w.hi = rdram[a.lo + 1] * 256 + rdram[a.lo + 2]
               /\ w.lo = rdram[a.lo + 3] * 256 + rdram[a.lo + 4]
          ELSE w.hi = 0 /\ w.lo = 0

\* C11 witness: after the CPU has fetched from the reset vector on, an
\* unaligned read inside rdram whose bytes tell the two byte orders apart.
C11_Witness ==
    /\ Len(bus) = 1
    /\ bus[1].addr = [hi |-> 0, lo |-> 1]
    /\ bus[1].word = [hi |-> 255, lo |-> 0]
    /\ cycles > 0

\* C12: register 0 reads as zero in every reachable state.
C12_RegisterZero == regs[0] = 0

\* C12 witness: the launcher was started, a loop thread has come back from
\* cpu.execute, and stop() was called.
C12_Witness ==
    /\ status = "Stopped"
    /\ \E t \in Threads : pc[t] = "rand"

\* the seven constants of the button enumeration
EnumeratedButtons ==
    {CONTROLLER_A, CONTROLLER_B, CONTROLLER_START, CONTROLLER_DPAD_UP,
     CONTROLLER_DPAD_DOWN, CONTROLLER_DPAD_LEFT, CONTROLLER_DPAD_RIGHT}

\* bit b (a power of two) is set in mask m
HasBit(m, b) == (m \div b) % 2 = 1

\* C13: between key events the mask is the OR of the constants of the held
\* buttons: it holds enumerated bits only, it is 0 when no key is held, and
\* since each of the seven buttons has a key, it holds all seven when every
\* key is held.
C13_ButtonEnumeration ==
    gui = "idle"
      => /\ buttons < 256 /\ ~HasBit(buttons, 8)
         /\ keys = {} => buttons = 0
         /\ keys = Keysyms
              => \A b \in EnumeratedButtons : HasBit(buttons, b)

\* C14: a load copies the first n = min(len(data), len(rdram)) bytes of the
\* image to rdram[0..n-1], leaves every byte from n on as it was, and keeps
\* the length of rdram.
C14_LoadCopiesVerbatim ==
    /\ Len(rdram) = RdramSize
    /\ [][(gui = "load" /\ gui' = "idle")
            => /\ Len(rdram') = RdramSize
               /\ \A i \in 1..RdramSize :
                    rdram'[i] = IF i <= Len(data) THEN data[i] ELSE rdram[i]]_vars

\* C14 witness: a one-byte ROM loaded over a longer one, whose second byte is
\* still in rdram.
C14_Witness ==
    /\ gui = "idle"
    /\ status = "Loaded"
    /\ rom_size = 1
    /\ rdram[1] = 0
    /\ rdram[2] = 255

\* C15: while the launcher is running no step, a start() call among them,
\* spawns a loop thread, resets the PPU (a painted cell stays painted) or
\* resets the CPU (registers stay, pc and cycles move only by an execute()).
C15_StartWhileRunningNoOp ==
    [][running
         => /\ \A t \in Threads : pc[t] = "dead" => pc'[t] = "dead"
            /\ \A c \in DOMAIN framebuffer :
                 framebuffer[c] = White => framebuffer'[c] = White
            /\ regs' = regs
            /\ next_pc' = next_pc
            /\ \/ cpu_pc' = cpu_pc /\ cycles' = cycles
               \/ cpu_pc' = AddrPlus(cpu_pc, 4) /\ cycles' = cycles + 1]_vars

\* C15 witness: a running launcher with a painted cell and room for another
\* thread, where start() can be called.
C15_Witness ==
    /\ running
    /\ gui = "idle"
    /\ \E c \in DOMAIN framebuffer : framebuffer[c] = White
    /\ \E t \in Threads : pc[t] = "dead"

Lockstep ==
    /\ cpu_pc = AddrPlus([hi |-> 32768, lo |-> 0], 4 * cycles)
    /\ cpu_pc.lo % 4 = 0

\* C17: pc = 0x80000000 + 4 * cycles in every state; pc and cycles change
\* only by a reset() back to (0x80000000, 0) or by an execute() on a running
\* CPU, which fetches at the old pc and adds exactly 4 to pc and 1 to cycles;
\* on a CPU that is not running no step changes pc, cycles or registers or
\* reads memory.
C17_PcCyclesLockstep ==
    /\ Lockstep
    /\ [][/\ Lockstep'
          /\ (cpu_pc' # cpu_pc \/ cycles' # cycles)
               => \/ /\ cpu_pc' = [hi |-> 32768, lo |-> 0]
                     /\ cycles' = 0
                  \/ /\ cpu_running
                     /\ cpu_pc' = AddrPlus(cpu_pc, 4)
                     /\ cycles' = cycles + 1
                     /\ Len(bus') = 1
                     /\ bus'[1].addr = cpu_pc
          /\ ~cpu_running
               => /\ UNCHANGED <<cpu_pc, cycles, regs>>
                  /\ bus' = <<>>]_vars

\* C17 witness: a running CPU two instructions past the reset vector, its
\* last fetch at 0x80000004.
C17_Witness ==
    /\ cpu_running
    /\ cycles = 2
    /\ Len(bus) = 1
    /\ bus[1].addr = [hi |-> 32768, lo |-> 4]

====
